---- MODULE Spec2Model ----
(***************************************************************************)
(* A model of gpparser/project.py: class GazePointProject.                 *)
(*                                                                         *)
(* The project object is built from a directory (the `.prj` descriptor and *)
(* the user/src/result directories), holds an ordered list of sessions,    *)
(* and offers indexed get/set, iteration, a tabular summary and three      *)
(* batch operations over selected sessions.                                *)
(***************************************************************************)
EXTENDS Integers, Sequences, FiniteSets, TLC

\* ------------------------------------------------------------------ bounds
MaxEntries == 3     \* longest "UserData" sequence of a descriptor
NumEntryIds == 2    \* distinct session names a descriptor entry may carry
MaxKeyLen == 2      \* longest list key / selector
MaxSets == 1        \* assignments counted in a run with traversals

\* --------------------------------------------------------------- constants
\* class attributes, project.py:10-18
PRJ_EXT == ".prj"
USER_DIR == "user"
SRC_DIR == "src"
RESULT_DIR == "result"
PRJ_DIRS == {USER_DIR, SRC_DIR, RESULT_DIR}

VARIABLES
    fs,         \* the directory on disk: [root, children, content]
    status,     \* "new" | "open" (constructor returned) | "failed" (it raised)
    err,        \* the exception the last call raised, or "None"
    self,       \* path, name and *_path attributes of the object
    sessions,   \* self.sessions
    last,       \* the last get/set/get_sessions_info call and what it returned
    iters,      \* the list iterators handed out by iter(project)
    batch,      \* the running export/split/annotate loop
    calls,      \* per-session calls made by the current batch operation
    nsets       \* project[key] = value calls so far, counted up to MaxSets

vars == <<fs, status, err, self, sessions, last, iters, batch, calls, nsets>>

\* ------------------------------------------------------------------ values
\* A descriptor entry: one mapping of the "UserData" sequence.  id 0 is an
\* entry the session constructor rejects.
IndexValues == {0, 1}
WellFormedEntries == [id : 1..NumEntryIds, index : IndexValues]
BadEntry == [id |-> 0, index |-> 0]
\* Entries whose sessions report index 0: sessions told apart by name.
PlainEntries == [id : 1..NumEntryIds, index : {0}]

Roots == {"prjA", "prjB"}

\* Python values that reach __setitem__ / live in self.sessions.
NoValue == [type |-> "NoneType", id |-> 0, index |-> 0, root |-> "None"]

\* ProjectSession.from_prj_entry(entry, path)
constructSession(entry, root) ==
    IF entry.id = 0
    THEN [type |-> "SessionConstructionError", id |-> 0, index |-> 0, root |-> root]
    ELSE [type |-> "ProjectSession", id |-> entry.id, index |-> entry.index, root |-> root]

isProjectSession(v) == v.type = "ProjectSession"

\* ProjectSession.get_session_info(): a record with an "index" field.
get_session_info(sess) == [index |-> sess.index, name |-> sess.id]

SeqsUpTo(S, n) == UNION {[1..k -> S] : k \in 0..n}

\* -------------------------------------------------------------- filesystem
\* Names a project directory may hold, in the order sorted() gives them.
ChildOrder == <<"a.prj", "b.prj", "old.prj", "result", "src", "user">>
ChildNames == {ChildOrder[i] : i \in 1..Len(ChildOrder)}
is_dir(name) == name \in {"old.prj", "result", "src", "user"}
is_file(name) == name \in {"a.prj", "b.prj"}
suffix(name) == IF name \in {"a.prj", "b.prj", "old.prj"} THEN ".prj" ELSE ""

NoPath == [root |-> "None", name |-> "None"]
ChildPath(root, name) == [root |-> root, name |-> name]

\* What a descriptor file decodes and parses to, once its first 14 bytes are
\* dropped and every ":" is followed by a space.
\*   cp1251 : every byte after the header has a cp1251 mapping
\*   doc    : what yaml.load returns: "error" (not YAML), "none" (empty
\*            document), "nokey" (a mapping without UserData), "null"
\*            (UserData with no value), "list" (UserData is a sequence)
Contents ==
    [cp1251 : {TRUE}, doc : {"list"}, entries : SeqsUpTo(PlainEntries \cup {BadEntry}, MaxEntries)]
    \cup [cp1251 : {TRUE}, doc : {"error", "none", "nokey", "null"}, entries : {<<>>}]
    \cup [cp1251 : {FALSE}, doc : {"list"}, entries : {<<>>}]

\* b.prj, when present, is one of two fixed files.
OtherContents ==
    { [cp1251 |-> TRUE, doc |-> "list", entries |-> <<[id |-> 1, index |-> 0]>>],
      [cp1251 |-> TRUE, doc |-> "nokey", entries |-> <<>>] }

DirContent(a, b) == [n \in {"a.prj", "b.prj"} |-> IF n = "a.prj" THEN a ELSE b]

\* sorted(list(self.path.glob("*")))
existing_files(f) == SelectSeq(ChildOrder, LAMBDA n : n \in f.children)

\* -------------------------------------------------------------- __init__
NewSelf(root) ==
    [path |-> root, name |-> "None", user_path |-> NoPath, src_path |-> NoPath,
     result_path |-> NoPath, prj_path |-> NoPath]

\* One pass of the loop body of _read_prj_files.
ScanChild(me, file_name) ==
    LET file_path == ChildPath(me.path, file_name) IN
    IF is_dir(file_name)
    THEN IF file_name \in PRJ_DIRS
         THEN CASE file_name = USER_DIR -> [me EXCEPT !.user_path = file_path]
                [] file_name = SRC_DIR -> [me EXCEPT !.src_path = file_path]
                [] file_name = RESULT_DIR -> [me EXCEPT !.result_path = file_path]
         ELSE me
    ELSE IF is_file(file_name) /\ suffix(file_name) = PRJ_EXT
         THEN [me EXCEPT !.name = file_name, !.prj_path = file_path]
         ELSE me

RECURSIVE ScanAll(_, _)
ScanAll(me, files) ==
    IF files = <<>> THEN me
    ELSE ScanAll(ScanChild(me, Head(files)), Tail(files))

\* _read_prj_files: [exc, self]
ReadPrjFiles(me, f) ==
    IF existing_files(f) = <<>>
    THEN [exc |-> "AssertionError", self |-> me]
    ELSE [exc |-> "None", self |-> ScanAll(me, existing_files(f))]

\* A comprehension that swallows the constructor's failure and goes on.
RECURSIVE BuildSessionsSkipBad(_, _)
BuildSessionsSkipBad(entries, root) ==
    IF entries = <<>> THEN [exc |-> "None", sessions |-> <<>>]
    ELSE LET s == constructSession(Head(entries), root)
             rest == BuildSessionsSkipBad(Tail(entries), root)
         IN IF ~isProjectSession(s) THEN rest
            ELSE [exc |-> "None", sessions |-> <<s>> \o rest.sessions]

\* A comprehension that keeps the first of equal entries only.
RECURSIVE BuildSessionsDedup(_, _)
BuildSessionsDedup(entries, root) ==
    IF entries = <<>> THEN [exc |-> "None", sessions |-> <<>>]
    ELSE LET s == constructSession(Head(entries), root)
             rest == BuildSessionsDedup(
                         SelectSeq(Tail(entries), LAMBDA e : e # Head(entries)), root)
         IN IF ~isProjectSession(s)
            THEN [exc |-> "SessionConstructionError", sessions |-> <<>>]
            ELSE IF rest.exc # "None" THEN rest
            ELSE [exc |-> "None", sessions |-> <<s>> \o rest.sessions]

\* The list comprehension of _read_user_data: one session per entry, in
\* order; the first entry the constructor rejects ends it with no list.
RECURSIVE BuildSessions(_, _)
BuildSessions(entries, root) ==
    IF entries = <<>> THEN [exc |-> "None", sessions |-> <<>>]
    ELSE LET s == constructSession(Head(entries), root)
             rest == BuildSessions(Tail(entries), root)
         IN IF ~isProjectSession(s)
            THEN [exc |-> "SessionConstructionError", sessions |-> <<>>]
            ELSE IF rest.exc # "None" THEN rest
            ELSE [exc |-> "None", sessions |-> <<s>> \o rest.sessions]

\* _read_user_data: [exc, sessions]
ReadUserData(me, f) ==
    IF me.prj_path = NoPath
    THEN [exc |-> "TypeError", sessions |-> <<>>]           \* open(None)
    ELSE LET c == f.content[me.prj_path.name] IN
         IF ~c.cp1251 THEN [exc |-> "UnicodeDecodeError", sessions |-> <<>>]
         ELSE CASE c.doc = "error" -> [exc |-> "YAMLError", sessions |-> <<>>]
                [] c.doc = "none" -> [exc |-> "TypeError", sessions |-> <<>>]
                [] c.doc = "nokey" -> [exc |-> "KeyError", sessions |-> <<>>]
                [] c.doc = "null" -> [exc |-> "TypeError", sessions |-> <<>>]
                [] c.doc = "list" -> BuildSessions(c.entries, me.path)


\* ------------------------------------------------------------------- keys
\* A Python value used as a key: its type, for a list the type of its
\* elements, and its integer content (1.5 is <<15>>, "x" is <<120>>).
NoKey == [type |-> "NoneType", elem |-> "none", v |-> <<>>]
IdxRange == (0 - MaxEntries - 1)..(MaxEntries + 1)
IntKeys == [type : {"int"}, elem : {"none"}, v : {<<i>> : i \in IdxRange}]
BoolKeys == [type : {"bool"}, elem : {"none"}, v : {<<0>>, <<1>>}]
OtherKeys ==
    { [type |-> "float", elem |-> "none", v |-> <<15>>],
      [type |-> "str", elem |-> "none", v |-> <<120>>],
      [type |-> "tuple", elem |-> "int", v |-> <<0, 1>>],
      [type |-> "slice", elem |-> "int", v |-> <<0, 1>>],
      NoKey }
IntListKeys == [type : {"list"}, elem : {"int"}, v : SeqsUpTo(IdxRange, MaxKeyLen)]
BadListKeys ==
    { [type |-> "list", elem |-> "str", v |-> <<120>>],
      [type |-> "list", elem |-> "float", v |-> <<15>>] }
ListKeys == IntListKeys \cup BadListKeys
Keys == IntKeys \cup BoolKeys \cup OtherKeys \cup ListKeys

\* isinstance(key, int): bool is a subclass of int.
IsInt(key) == key.type \in {"int", "bool"}
IsList(key) == key.type = "list"

\* ----------------------------------------------------------- list indexing
\* list.__getitem__ / __setitem__ with an int: the 1-based position, 0 when
\* the index is out of range.  Negative indices count from the end.
ListPosNoNegative(seq, i) ==
    IF 0 <= i /\ i < Len(seq) THEN i + 1 ELSE 0

ListPos(seq, i) ==
    IF 0 <= i /\ i < Len(seq) THEN i + 1
    ELSE IF i < 0 /\ 0 - Len(seq) <= i THEN Len(seq) + i + 1
    ELSE 0

Raise(exc, nv, nt) ==
    [kind |-> "raise", ret |-> <<>>, exc |-> exc, names_value |-> nv, names_type |-> nt]
Return(kind, ret) ==
    [kind |-> kind, ret |-> ret, exc |-> "None", names_value |-> FALSE, names_type |-> FALSE]

\* [self.sessions[i] for i in key]
RECURSIVE Gather(_, _)
Gather(seq, idx) ==
    IF idx = <<>> THEN Return("list", <<>>)
    ELSE LET p == ListPos(seq, Head(idx))
             rest == Gather(seq, Tail(idx))
         IN IF p = 0 THEN Raise("IndexError", FALSE, FALSE)
            ELSE IF rest.kind = "raise" THEN rest
            ELSE Return("list", <<seq[p]>> \o rest.ret)

\* A gather that drops the indices it cannot resolve.
RECURSIVE GetItemLenient(_, _)
GetItemLenient(seq, key) ==
    IF IsInt(key)
    THEN IF ListPos(seq, key.v[1]) = 0 THEN Raise("IndexError", FALSE, FALSE)
         ELSE Return("handle", <<seq[ListPos(seq, key.v[1])]>>)
    ELSE IF IsList(key)
    THEN IF key.elem # "int" THEN Raise("TypeError", FALSE, TRUE)
         ELSE IF key.v = <<>> THEN Return("list", <<>>)
         ELSE LET p == ListPos(seq, Head(key.v))
                  rest == GetItemLenient(seq, [key EXCEPT !.v = Tail(key.v)])
              IN IF p = 0 THEN rest ELSE Return("list", <<seq[p]>> \o rest.ret)
    ELSE Raise("IndexError", TRUE, TRUE)

\* A __getitem__ that hands every non-list key to the list.
GetItemNoTypeCheck(seq, key) ==
    IF IsList(key)
    THEN IF key.elem # "int" THEN Raise("TypeError", FALSE, TRUE)
         ELSE Gather(seq, key.v)
    ELSE IF key.type \in {"int", "bool"}
    THEN IF ListPos(seq, key.v[1]) = 0 THEN Raise("IndexError", FALSE, FALSE)
         ELSE Return("handle", <<seq[ListPos(seq, key.v[1])]>>)
    ELSE IF key.type = "slice" THEN Return("list", <<>>)
    ELSE Raise("TypeError", FALSE, TRUE)

\* __getitem__
GetItem(seq, key) ==
    IF IsInt(key)
    THEN IF ListPos(seq, key.v[1]) = 0
         THEN Raise("IndexError", FALSE, FALSE)      \* list index out of range
         ELSE Return("handle", <<seq[ListPos(seq, key.v[1])]>>)
    ELSE IF IsList(key)
    THEN IF key.elem # "int"
         THEN Raise("TypeError", FALSE, TRUE)        \* list indices must be integers or slices, not str
         ELSE Gather(seq, key.v)
    ELSE Raise("IndexError", TRUE, TRUE)             \* Wrong type of {key}: {type(key)}.

\* A __setitem__ without the isinstance assertion.
SetItemNoAssert(seq, key, value) ==
    IF ~IsInt(key) THEN [exc |-> "TypeError", sessions |-> seq]
    ELSE IF ListPos(seq, key.v[1]) = 0 THEN [exc |-> "IndexError", sessions |-> seq]
    ELSE [exc |-> "None", sessions |-> [seq EXCEPT ![ListPos(seq, key.v[1])] = value]]

\* __setitem__: [exc, sessions]
SetItem(seq, key, value) ==
    IF ~isProjectSession(value) THEN [exc |-> "AssertionError", sessions |-> seq]
    ELSE IF ~IsInt(key)
    THEN [exc |-> "TypeError", sessions |-> seq]     \* list indices must be integers or slices
    ELSE IF ListPos(seq, key.v[1]) = 0
    THEN [exc |-> "IndexError", sessions |-> seq]    \* list assignment index out of range
    ELSE [exc |-> "None", sessions |-> [seq EXCEPT ![ListPos(seq, key.v[1])] = value]]

\* ------------------------------------------------------- get_sessions_info
\* pd.DataFrame(records).set_index('index'): one row per record, labelled
\* by its "index"; no columns (KeyError) when there are no records.
RECURSIVE InfoRows(_)
InfoRows(seq) ==
    IF seq = <<>> THEN <<>>
    ELSE <<get_session_info(Head(seq))>> \o InfoRows(Tail(seq))

GetSessionsInfo(seq) ==
    IF seq = <<>> THEN [exc |-> "KeyError", rows |-> <<>>]
    ELSE [exc |-> "None", rows |-> InfoRows(seq)]

\* ---------------------------------------------------------------- records
NoCall == [op |-> "none", key |-> NoKey, value |-> NoValue,
           kind |-> "none", ret |-> <<>>, rows |-> <<>>, exc |-> "None",
           names_value |-> FALSE, names_type |-> FALSE]
NoSelector == NoKey
NoBatch == [op |-> "none", mode |-> "idle", items |-> <<>>, pos |-> 0, opts |-> "none",
            sel |-> NoSelector, pre |-> <<>>, state |-> "idle"]
NoIter == [state |-> "unused", pos |-> 0, pre |-> <<>>, item |-> NoValue]
Iters == {"first", "second"}
NoIters == [i \in Iters |-> NoIter]

\* -------------------------------------------------------------- iteration
\* A list iterator that walks the list it copied when it was made.
ListIterNextSnapshot(seq, it) ==
    IF it.pos < Len(it.pre)
    THEN [stop |-> FALSE, item |-> it.pre[it.pos + 1], pos |-> it.pos + 1]
    ELSE [stop |-> TRUE, item |-> NoValue, pos |-> it.pos]

\* A loop that leaves out the last item.
ListIterNextShort(seq, it) ==
    IF it.pos + 1 < Len(seq)
    THEN [stop |-> FALSE, item |-> seq[it.pos + 1], pos |-> it.pos + 1]
    ELSE [stop |-> TRUE, item |-> NoValue, pos |-> it.pos]

\* next() of the list iterator iter(self.sessions) / of a for loop over a
\* list: it reads the list itself, at its own position, when asked.
ListIterNext(seq, it) ==
    IF it.pos < Len(seq)
    THEN [stop |-> FALSE, item |-> seq[it.pos + 1], pos |-> it.pos + 1]
    ELSE [stop |-> TRUE, item |-> NoValue, pos |-> it.pos]

\* A loop that catches a session's failure and goes on.
AfterCallContinue(ok) == "running"

\* The loop body `session.export(**kwargs)`: an exception leaves the loop.
AfterCall(ok) == IF ok THEN "running" ELSE "failed"

\* split() and annotate() are called without arguments.
PassedOptions(op, opts) == IF op = "export" THEN opts ELSE "none"

Ops == {"export", "split", "annotate"}
Options == {"screen", "gaze"}

\* ---------------------------------------------------------------- actions
\* GazePointProject(path)
OpenProject ==
    /\ status = "new"
    /\ LET scan == ReadPrjFiles(NewSelf(fs.root), fs)
           load == ReadUserData(scan.self, fs)
       IN IF scan.exc # "None"
          THEN /\ status' = "failed" /\ err' = scan.exc
               /\ self' = scan.self /\ sessions' = <<>>
          ELSE IF load.exc # "None"
          THEN /\ status' = "failed" /\ err' = load.exc
               /\ self' = scan.self /\ sessions' = <<>>
          ELSE /\ status' = "open" /\ err' = "None"
               /\ self' = scan.self /\ sessions' = load.sessions
    /\ UNCHANGED <<fs, last, iters, batch, calls, nsets>>

\* project[key]
GetItemCall(key) ==
    /\ status = "open"
    /\ LET r == GetItem(sessions, key) IN
       /\ last' = [NoCall EXCEPT !.op = "get", !.key = key,
                                 !.kind = r.kind, !.ret = r.ret, !.exc = r.exc,
                                 !.names_value = r.names_value,
                                 !.names_type = r.names_type]
       /\ err' = r.exc
    /\ UNCHANGED <<fs, status, self, sessions, iters, batch, calls, nsets>>

\* project[key] = value
SetItemCall(key, value) ==
    /\ status = "open"
    /\ LET r == SetItem(sessions, key, value) IN
       /\ sessions' = r.sessions
       /\ last' = [NoCall EXCEPT !.op = "set", !.key = key, !.value = value,
                                 !.exc = r.exc,
                                 !.kind = IF r.exc = "None" THEN "none" ELSE "raise"]
       /\ err' = r.exc
    /\ UNCHANGED <<fs, status, self, iters, batch, calls>>

\* project.get_sessions_info()
GetSessionsInfoCall ==
    /\ status = "open"
    /\ LET r == GetSessionsInfo(sessions) IN
       /\ last' = [NoCall EXCEPT !.op = "info", !.rows = r.rows,
                                 !.exc = r.exc,
                                 !.kind = IF r.exc = "None" THEN "table" ELSE "raise"]
       /\ err' = r.exc
    /\ UNCHANGED <<fs, status, self, sessions, iters, batch, calls, nsets>>

\* it = iter(project)
Iterate(i) ==
    /\ status = "open"
    /\ batch.state # "running"
    /\ iters' = [iters EXCEPT ![i] = [state |-> "live", pos |-> 0,
                                      pre |-> sessions, item |-> NoValue]]
    /\ UNCHANGED <<fs, status, err, self, sessions, last, batch, calls, nsets>>

\* next(it)
IterNext(i) ==
    /\ status = "open"
    /\ batch.state # "running"
    /\ iters[i].state = "live"
    /\ LET n == ListIterNext(sessions, iters[i]) IN
       iters' = [iters EXCEPT ![i] =
                    IF n.stop THEN [@ EXCEPT !.state = "done"]
                    ELSE [@ EXCEPT !.pos = n.pos, !.item = n.item]]
    /\ UNCHANGED <<fs, status, err, self, sessions, last, batch, calls, nsets>>

\* export_sessions / split_sessions / annotate_sessions up to the loop:
\* `sessions = iter(self) if session_indices is None else self[session_indices]`
BatchStart(op, sel, opts) ==
    /\ status = "open"
    /\ batch.state = "idle"
    /\ calls' = <<>>
    /\ IF sel = NoSelector
       THEN /\ batch' = [op |-> op, mode |-> "iter", items |-> <<>>, pos |-> 0,
                         opts |-> opts, sel |-> sel, pre |-> sessions,
                         state |-> "running"]
            /\ err' = "None"
       ELSE LET r == GetItem(sessions, sel) IN
            /\ batch' = [op |-> op, mode |-> "list", items |-> r.ret, pos |-> 0,
                         opts |-> opts, sel |-> sel, pre |-> sessions,
                         state |-> IF r.kind = "raise" THEN "failed" ELSE "running"]
            /\ err' = r.exc
    /\ UNCHANGED <<fs, status, self, sessions, last, iters, nsets>>

\* One turn of `for session in sessions: session.<op>(...)`; ok is whether
\* the session's method returns.
BatchStep(ok) ==
    /\ batch.state = "running"
    /\ LET source == IF batch.mode = "iter" THEN sessions ELSE batch.items
           n == ListIterNext(source, batch)
       IN /\ ~n.stop
          /\ calls' = Append(calls, [op |-> batch.op, sess |-> n.item,
                                     opts |-> PassedOptions(batch.op, batch.opts),
                                     ok |-> ok])
          /\ batch' = [batch EXCEPT !.pos = n.pos, !.state = AfterCall(ok)]
          /\ err' = IF AfterCall(ok) = "failed" THEN "OperationError" ELSE "None"
    /\ UNCHANGED <<fs, status, self, sessions, last, iters, nsets>>

\* The loop finds nothing more and the method returns.
BatchEnd ==
    /\ batch.state = "running"
    /\ LET source == IF batch.mode = "iter" THEN sessions ELSE batch.items
       IN ListIterNext(source, batch).stop
    /\ batch' = [batch EXCEPT !.state = "done"]
    /\ UNCHANGED <<fs, status, err, self, sessions, last, iters, calls, nsets>>

\* ---------------------------------------------------------- specifications
\* The constructor run on every directory.
InitOpen ==
    /\ \E r \in Roots, c \in SUBSET ChildNames, a \in Contents, b \in OtherContents :
           fs = [root |-> r, children |-> c, content |-> DirContent(a, b)]
    /\ status = "new"
    /\ err = "None"
    /\ self = NewSelf(fs.root)
    /\ sessions = <<>>
    /\ last = NoCall
    /\ iters = NoIters
    /\ batch = NoBatch
    /\ calls = <<>>
    /\ nsets = 0

NextOpen == OpenProject

SpecOpen == InitOpen /\ [][NextOpen]_vars

\* A project as its constructor returns it, for a directory that holds the
\* three directories and a descriptor a.prj whose UserData is `entries`.
ProjectDir(entries) ==
    [root |-> "prjA", children |-> {"a.prj", "result", "src", "user"},
     content |-> DirContent([cp1251 |-> TRUE, doc |-> "list", entries |-> entries],
                            [cp1251 |-> TRUE, doc |-> "nokey", entries |-> <<>>])]

Opened(entries) ==
    LET f == ProjectDir(entries)
        scan == ReadPrjFiles(NewSelf(f.root), f)
        load == ReadUserData(scan.self, f)
    IN /\ fs = f
       /\ status = "open"
       /\ err = "None"
       /\ self = scan.self
       /\ sessions = load.sessions
       /\ last = NoCall
       /\ iters = NoIters
       /\ batch = NoBatch
       /\ calls = <<>>
       /\ nsets = 0

Sessions == {constructSession(e, "prjA") : e \in PlainEntries}

\* Values a caller assigns: sessions of this project, a session built for
\* another project, and values that are no ProjectSession.
SetValues ==
    Sessions
    \cup {constructSession([id |-> 1, index |-> 1], "prjB")}
    \cup {[type |-> "str", id |-> 0, index |-> 0, root |-> "None"]}

SetKeys == IntKeys \cup BoolKeys \cup OtherKeys \cup BadListKeys
               \cup [type : {"list"}, elem : {"int"}, v : {<<>>, <<0>>}]

InitProject == \E es \in SeqsUpTo(PlainEntries, MaxEntries) : Opened(es)

\* One project of each length, its sessions named 1, 2, ... in turn.
InitByLength ==
    \E n \in 0..MaxEntries :
        Opened([i \in 1..n |-> [id |-> ((i - 1) % NumEntryIds) + 1, index |-> 0]])

\* One indexed get on an opened project; a get changes nothing, so each
\* behaviour follows a single call.
NextGet == \E k \in Keys : last.op = "none" /\ GetItemCall(k)

SpecGet == InitProject /\ [][NextGet]_vars

\* Any sequence of assignments to an opened project.
NextSet == \E k \in SetKeys, v \in SetValues : SetItemCall(k, v) /\ UNCHANGED nsets

SpecSet == InitByLength /\ [][NextSet]_vars

\* The tabular summary of an opened project, whose sessions may report
\* equal "index" values.
InitInfo == \E es \in SeqsUpTo(WellFormedEntries, MaxEntries) : Opened(es)

NextInfo == GetSessionsInfoCall

SpecInfo == InitInfo /\ [][NextInfo]_vars

\* One batch operation, run to its end.
SelRange == (0 - 1)..MaxEntries
Selectors ==
    {NoSelector} \cup BadListKeys
    \cup [type : {"list"}, elem : {"int"}, v : SeqsUpTo(SelRange, MaxKeyLen)]

NextBatch ==
    \/ \E sel \in Selectors, opts \in Options : BatchStart("export", sel, opts)
    \/ \E op \in {"split", "annotate"}, sel \in Selectors : BatchStart(op, sel, "screen")
    \/ \E ok \in BOOLEAN : BatchStep(ok)
    \/ BatchEnd

SpecBatch == InitProject /\ [][NextBatch]_vars

\* Traversals, or one batch without selector, while the caller (or, during
\* the batch, a session's own method) replaces sessions in place.
PositionKeys == [type : {"int"}, elem : {"none"}, v : {<<i>> : i \in 0..(MaxEntries - 1)}]

NextIter ==
    \/ \E i \in Iters : batch.state = "idle" /\ Iterate(i)
    \/ \E i \in Iters : IterNext(i)
    \/ \E k \in PositionKeys, v \in Sessions : nsets < MaxSets /\ SetItemCall(k, v) /\ nsets' = nsets + 1
    \/ \E op \in Ops : iters = NoIters /\ BatchStart(op, NoSelector, "screen")
    \/ BatchStep(TRUE)
    \/ BatchEnd

SpecIter == InitByLength /\ [][NextIter]_vars

\* ------------------------------------------------------------ properties
\* The descriptor a directory offers: sorted() puts b.prj after a.prj.
Descriptor == IF "b.prj" \in fs.children THEN "b.prj" ELSE "a.prj"
UserData == fs.content[Descriptor].entries
HasDescriptor == fs.children \cap {"a.prj", "b.prj"} # {}
Loadable ==
    /\ HasDescriptor
    /\ fs.content[Descriptor].cp1251
    /\ fs.content[Descriptor].doc = "list"
    /\ \A i \in 1..Len(UserData) : UserData[i] # BadEntry

\* The handle a Python index names in the stored list: from the front when
\* it is not negative, from the end when it is.
N == Len(sessions)
Resolves(i) == 0 - N <= i /\ i < N
At(i) == IF i >= 0 THEN sessions[i + 1] ELSE sessions[N + i + 1]

\* C1: a project opened from a descriptor of N entries holds N sessions, the
\* i-th built from the i-th entry and the root path: nothing is dropped,
\* reordered, duplicated or deduplicated.
C1_OneSessionPerEntryInOrder ==
    status = "open" =>
        /\ Len(sessions) = Len(UserData)
        /\ \A i \in 1..Len(UserData) :
               sessions[i] = constructSession(UserData[i], fs.root)

C1_Witness ==
    /\ status = "open"
    /\ Len(sessions) >= 3
    /\ sessions[1] = sessions[3]
    /\ sessions[1] # sessions[2]

\* C2: the constructor either returns a project holding a session for every
\* entry, or raises and returns nothing: an empty directory fails the
\* assertion, and a missing, undecodable or UserData-less descriptor or a
\* rejected entry raises too, leaving no session list behind.
C2_NoPartialProject ==
    status # "new" =>
        /\ fs.children = {} => status = "failed" /\ err = "AssertionError"
        /\ ~Loadable => status = "failed"
        /\ status = "failed" =>
               /\ err \in {"AssertionError", "TypeError", "UnicodeDecodeError",
                           "YAMLError", "KeyError", "SessionConstructionError"}
               /\ sessions = <<>>
        /\ status = "open" =>
               /\ Len(sessions) = Len(UserData)
               /\ \A i \in 1..Len(sessions) : isProjectSession(sessions[i])

C2_Witness ==
    /\ status = "failed"
    /\ err = "SessionConstructionError"
    /\ Len(UserData) >= 2
    /\ UserData[1] # BadEntry

\* C3 as stated: get(index) returns the handle at that position for
\* 0 <= index < N and fails as out of range for every other integer, every
\* negative one included.
C3_NegativeIndexFails ==
    (last.op = "get" /\ last.key.type = "int") =>
        LET i == last.key.v[1] IN
        IF 0 <= i /\ i < N
        THEN last.kind = "handle" /\ last.ret = <<sessions[i + 1]>>
        ELSE last.kind = "raise" /\ last.exc = "IndexError"

\* C3 amended: get(index) returns the handle at that position for
\* 0 <= index < N, the handle at position N + index for -N <= index < 0, and
\* fails as out of range for every integer outside [-N, N).
C3_PythonIndex ==
    (last.op = "get" /\ last.key.type = "int") =>
        LET i == last.key.v[1] IN
        IF 0 <= i /\ i < N
        THEN last.kind = "handle" /\ last.ret = <<sessions[i + 1]>>
        ELSE IF 0 - N <= i /\ i < 0
        THEN last.kind = "handle" /\ last.ret = <<sessions[N + i + 1]>>
        ELSE last.kind = "raise" /\ last.exc = "IndexError" /\ last.ret = <<>>

C3_Witness ==
    /\ last.op = "get"
    /\ last.key.type = "int"
    /\ last.key.v[1] < 0
    /\ last.kind = "handle"
    /\ N >= 2
    /\ last.ret[1] # sessions[1]

\* C4: get(indices) returns as many handles as indices, the k-th being the
\* handle indices[k] names (order kept, duplicates resolved one by one); if
\* any index is one the list cannot resolve, the call fails and returns
\* nothing.
C4_GatherInOrder ==
    (last.op = "get" /\ last.key.type = "list" /\ last.key.elem = "int") =>
        LET idx == last.key.v IN
        IF \A k \in 1..Len(idx) : Resolves(idx[k])
        THEN /\ last.kind = "list"
             /\ Len(last.ret) = Len(idx)
             /\ \A k \in 1..Len(idx) : last.ret[k] = At(idx[k])
        ELSE last.kind = "raise" /\ last.ret = <<>>

C4_Witness ==
    /\ last.op = "get"
    /\ last.key.type = "list"
    /\ last.key.elem = "int"
    /\ last.kind = "list"
    /\ Len(last.key.v) = 2
    /\ last.key.v[1] > last.key.v[2]
    /\ last.key.v[2] >= 0
    /\ last.ret[1] # last.ret[2]

Selected ==
    IF batch.sel = NoSelector THEN batch.pre
    ELSE [k \in 1..Len(batch.sel.v) |->
            IF batch.sel.v[k] >= 0 THEN batch.pre[batch.sel.v[k] + 1]
            ELSE batch.pre[Len(batch.pre) + batch.sel.v[k] + 1]]

\* C6: an export_sessions that returns has called export once per element
\* of its list selector, on the sessions at those positions in the list's
\* order and with the options it was given, and on nothing else; without a
\* selector it has called export once on every session in stored order.
C6_ExportOncePerSelected ==
    (batch.op = "export" /\ batch.state = "done") =>
        /\ Len(calls) = Len(Selected)
        /\ \A k \in 1..Len(calls) :
               /\ calls[k].op = "export"
               /\ calls[k].sess = Selected[k]
               /\ calls[k].opts = batch.opts
               /\ calls[k].ok

C6_Witness ==
    /\ batch.op = "export"
    /\ batch.state = "done"
    /\ batch.sel # NoSelector
    /\ Len(batch.sel.v) = 2
    /\ batch.sel.v[1] > batch.sel.v[2]
    /\ batch.sel.v[2] >= 0
    /\ Len(sessions) >= 3
    /\ calls[1].sess # calls[2].sess
    /\ calls[1].opts = "gaze"

\* C7: when the call on the k-th selected session fails, the batch ends
\* there: the first k-1 selected sessions were called once each and
\* returned, the k-th call is the failed one, and no later session is ever
\* called.
C7_FailFast ==
    /\ \A j \in 1..Len(calls) :
           /\ j <= Len(Selected)
           /\ calls[j].op = batch.op
           /\ calls[j].sess = Selected[j]
           /\ j < Len(calls) => calls[j].ok
    /\ (calls # <<>> /\ ~calls[Len(calls)].ok) <=> (batch.state = "failed" /\ calls # <<>>)
    /\ (batch.state = "failed" /\ calls # <<>>) => err = "OperationError"

C7_Witness ==
    /\ batch.state = "failed"
    /\ batch.op = "split"
    /\ batch.sel = NoSelector
    /\ Len(sessions) >= 3
    /\ Len(calls) = 2
    /\ calls[1].ok
    /\ ~calls[2].ok

\* C8: get_sessions_info() never returns a table with two rows of the same
\* identifier: sessions of distinct "index" give one row each, labelled by
\* the session's own "index", and two sessions of equal "index" are refused
\* with AggregationError.
C8_UniqueRowsOrRejected ==
    (last.op = "info" /\ sessions # <<>>) =>
        LET Distinct == \A i, j \in 1..N : i # j => sessions[i].index # sessions[j].index IN
        /\ Distinct =>
               /\ last.kind = "table"
               /\ Len(last.rows) = N
               /\ \A i \in 1..N : last.rows[i].index = sessions[i].index
        /\ ~Distinct => last.kind = "raise" /\ last.exc = "AggregationError"
        /\ last.kind = "table" =>
               \A i, j \in 1..Len(last.rows) :
                   i # j => last.rows[i].index # last.rows[j].index

\* C9: every assignment leaves the collection at the length the descriptor
\* gave it and holding sessions only; with an integer key the list resolves
\* and a session value it replaces that one position, and otherwise it
\* fails and changes nothing.
C9_SetKeepsShape ==
    [][ /\ Len(sessions') = Len(UserData)
        /\ \A i \in 1..Len(sessions') : isProjectSession(sessions'[i])
        /\ LET k == last'.key
               v == last'.value
           IN IF isProjectSession(v) /\ k.type \in {"int", "bool"} /\ Resolves(k.v[1])
              THEN /\ last'.exc = "None"
                   /\ sessions'[IF k.v[1] >= 0 THEN k.v[1] + 1 ELSE N + k.v[1] + 1] = v
                   /\ \A j \in 1..N :
                          j # (IF k.v[1] >= 0 THEN k.v[1] + 1 ELSE N + k.v[1] + 1)
                              => sessions'[j] = sessions[j]
              ELSE last'.exc # "None" /\ sessions' = sessions
      ]_vars

C9_Witness ==
    /\ last.op = "set"
    /\ last.exc = "None"
    /\ N >= 2
    /\ sessions[2] = last.value
    /\ sessions[2] # constructSession(UserData[2], fs.root)
    /\ sessions[1] = constructSession(UserData[1], fs.root)

\* C10 as stated: a traversal (and a batch without selector) yields the
\* handles the collection held when it was started, whatever is assigned
\* afterwards.
C10_TraversalIsSnapshot ==
    /\ \A i \in Iters : iters[i].pos > 0 => iters[i].item = iters[i].pre[iters[i].pos]
    /\ batch.mode = "iter" => \A j \in 1..Len(calls) : calls[j].sess = batch.pre[j]

\* C10 amended: a traversal (and a batch without selector) reads the live
\* collection: each step yields the handle stored at the traversal's
\* position at the moment of that step, so an assignment to a position not
\* yet reached is seen; each iterate() starts at position 0 and leaves every
\* other traversal where it was.
C10_TraversalIsLive ==
    [][ /\ \A i \in Iters :
               iters'[i] # iters[i] =>
                   /\ \A j \in Iters \ {i} : iters'[j] = iters[j]
                   /\ \/ /\ iters'[i].state = "live"
                         /\ iters'[i].pos = 0
                      \/ /\ iters[i].state = "live"
                         /\ iters'[i].state = "live"
                         /\ iters'[i].pos = iters[i].pos + 1
                         /\ iters'[i].item = sessions[iters'[i].pos]
                      \/ /\ iters[i].state = "live"
                         /\ iters'[i].state = "done"
                         /\ iters[i].pos = N
                         /\ iters'[i].pos = iters[i].pos
        /\ (batch.mode = "iter" /\ calls' # calls) =>
               /\ Len(calls') = Len(calls) + 1
               /\ calls'[Len(calls')].sess = sessions[Len(calls')]
               /\ SubSeq(calls', 1, Len(calls)) = calls
      ]_vars

C10_Witness ==
    /\ iters["first"].pos > 0
    /\ iters["first"].item # iters["first"].pre[iters["first"].pos]
    /\ iters["second"].state = "live"
    /\ iters["second"].pos = 0

====
